---- MODULE Spec2Model ----
(***************************************************************************)
(* Model of parserCharacters.ts: parseDataset (string -> Dataset) and      *)
(* stringifyDataset (Dataset -> canonical string), and of the round trip   *)
(* driven by assertIdempotent.                                             *)
(*                                                                         *)
(* Strings are sequences of one-character strings.  The code's indices are *)
(* 0-based; At and Slice keep them 0-based.  An issue keeps code, raw and  *)
(* path; its message is a constant of its code and is left out.            *)
(*                                                                         *)
(* Object identity of a node is an allocation number (id) handed out when  *)
(* the object literal of parseNode is evaluated.  Fields marked "history"  *)
(* record where and how a value was built; no operation of the program     *)
(* reads them.                                                             *)
(***************************************************************************)
EXTENDS Integers, Sequences, FiniteSets, TLC

VARIABLES input, pc, ds, canon, ds2, canon2

vars == <<input, pc, ds, canon, ds2, canon2>>

(* ------------------------------ bounds -------------------------------- *)

\* Longest enumerated input text.
MaxLen == 5

\* The characters the enumerated inputs are drawn from: one name character,
\* one whitespace character, the separator and the four brackets.
Chars == {"a", " ", ";", "(", ")", "[", "]"}

(* --------------------------- string helpers --------------------------- *)

\* s[i], 0-based.
At(s, i) == s[i + 1]

\* s.slice(from, to), 0-based, to exclusive.
Slice(s, from, to) == SubSeq(s, from + 1, to)

\* s.slice(from)
SliceFrom(s, from) == SubSeq(s, from + 1, Len(s))

\* The characters String.prototype.trim strips: the WhiteSpace and
\* LineTerminator code points of ECMAScript.  WhiteSpace lists them in the
\* order tab, line feed, vertical tab (U+000B), form feed, carriage return,
\* space, no-break space (U+00A0), ogham space mark (U+1680), zero width
\* no-break space (U+FEFF).  The others (U+2000 to U+200A, U+2028, U+2029,
\* U+202F, U+205F, U+3000) are characters no string of this module can hold.
WhiteSpace == {"\t", "\n", "", "\f", "\r", " ", " ", " ", "﻿"}

\* c is stripped by trim().
IsSpace(c) == c \in WhiteSpace

RECURSIVE TrimLeft(_)
TrimLeft(s) ==
  IF s # <<>> /\ IsSpace(Head(s)) THEN TrimLeft(Tail(s)) ELSE s

RECURSIVE TrimRight(_)
TrimRight(s) ==
  IF s # <<>> /\ IsSpace(s[Len(s)]) THEN TrimRight(SubSeq(s, 1, Len(s) - 1)) ELSE s

\* s.trim()
Trim(s) == TrimRight(TrimLeft(s))

\* s.includes(c)
Includes(s, c) == \E k \in 1..Len(s) : s[k] = c

\* parts.join(sep)
RECURSIVE Join(_, _)
Join(parts, sep) ==
  IF parts = <<>> THEN <<>>
  ELSE IF Len(parts) = 1 THEN parts[1]
  ELSE parts[1] \o sep \o Join(Tail(parts), sep)

(* ------------------------------- issues ------------------------------- *)

IssueCodes ==
  {"MISSING_NAME", "INVALID_MEMBER_ALIAS_ONLY", "INVALID_FRAGMENT_ORDER",
   "UNMATCHED_ROUND", "NESTED_ROUND_NOT_ALLOWED", "UNMATCHED_SQUARE",
   "AMBIGUOUS_SQUARE_LIST", "EXTRA_CLOSING_ROUND", "EXTRA_CLOSING_SQUARE"}

Issue(code, raw, path) == [code |-> code, raw |-> raw, path |-> path]

\* `${path}[${k}]`
Indexed(path, k) == path \o "[" \o ToString(k) \o "]"

(* ----------------------------- scanTopLevel --------------------------- *)

\* The loop of scanTopLevel from index i.  calls is the sequence of indices
\* the callback was invoked with, in order; neither callback of the program
\* returns false, so the loop always runs to the end and returns true.
\* low (history) is the lowest value either depth counter has taken.
\* Mutant of atTopLevel: the square depth is not looked at.
atTopLevel_roundOnly(round, sq) == round = 0

\* The test `round === 0 && sq === 0` that guards the callback.
atTopLevel(round, sq) == round = 0 /\ sq = 0

\* Mutant of closable: a closer always decrements its counter.
closable_always(depth) == TRUE

\* The tests `round > 0` and `sq > 0` a closer is met with.
closable(depth) == depth > 0

\* The smaller of two numbers.
Least(a, b) == IF a < b THEN a ELSE b

RECURSIVE scanLoop(_, _, _, _, _, _, _, _)
scanLoop(s, path, i, round, sq, issues, calls, low) ==
  IF i >= Len(s)
  THEN [ret |-> TRUE, issues |-> issues, calls |-> calls, low |-> low]
  ELSE
    LET ch == At(s, i) IN
    CASE ch = "(" -> scanLoop(s, path, i + 1, round + 1, sq, issues, calls, low)
      [] ch = ")" ->
           IF closable(round)
           THEN scanLoop(s, path, i + 1, round - 1, sq, issues, calls, Least(low, round - 1))
           ELSE scanLoop(s, path, i + 1, round, sq,
                         Append(issues, Issue("EXTRA_CLOSING_ROUND", SliceFrom(s, i), path)),
                         calls, low)
      [] ch = "[" -> scanLoop(s, path, i + 1, round, sq + 1, issues, calls, low)
      [] ch = "]" ->
           IF closable(sq)
           THEN scanLoop(s, path, i + 1, round, sq - 1, issues, calls, Least(low, sq - 1))
           ELSE scanLoop(s, path, i + 1, round, sq,
                         Append(issues, Issue("EXTRA_CLOSING_SQUARE", SliceFrom(s, i), path)),
                         calls, low)
      [] OTHER ->
           IF atTopLevel(round, sq)
           THEN scanLoop(s, path, i + 1, round, sq, issues, Append(calls, i), low)
           ELSE scanLoop(s, path, i + 1, round, sq, issues, calls, low)

scanTopLevel(s, path, issues) == scanLoop(s, path, 0, 0, 0, issues, <<>>, 0)

(* ----------------------- splitByTopLevelSemicolon --------------------- *)

\* The callback of splitByTopLevelSemicolon applied to the calls from the
\* k-th on: at a ';' it pushes s.slice(start, i) and sets start = i + 1.
RECURSIVE splitCalls(_, _, _, _, _)
splitCalls(s, calls, k, start, out) ==
  IF k > Len(calls) THEN Append(out, SliceFrom(s, start))
  ELSE IF At(s, calls[k]) = ";"
  THEN splitCalls(s, calls, k + 1, calls[k] + 1, Append(out, Slice(s, start, calls[k])))
  ELSE splitCalls(s, calls, k + 1, start, out)

\* Mutant of splitScanned: empty pieces are left out.
splitScanned_nonEmpty(s, sc) ==
  [out |-> SelectSeq(splitCalls(s, sc.calls, 1, 0, <<>>), LAMBDA p : p # <<>>),
   issues |-> sc.issues]

\* The result of splitByTopLevelSemicolon once the scan sc of s is done:
\* the pieces out, and the issue list the scan left.
splitScanned(s, sc) ==
  [out |-> splitCalls(s, sc.calls, 1, 0, <<>>), issues |-> sc.issues]

splitByTopLevelSemicolon(s, path, issues) ==
  splitScanned(s, scanTopLevel(s, path, issues))

(* ------------------------------ readers ------------------------------- *)

\* The loop of readRoundFlat from index i.
RECURSIVE roundLoop(_, _, _, _, _, _, _)
roundLoop(s, start, i, depth, sawNested, path, issues) ==
  IF i >= Len(s)
  THEN [inner |-> SliceFrom(s, start + 1), next |-> Len(s),
        issues |-> Append(issues, Issue("UNMATCHED_ROUND", SliceFrom(s, start), path))]
  ELSE
    LET ch == At(s, i) IN
    CASE ch = "(" -> roundLoop(s, start, i + 1, depth + 1, TRUE, path, issues)
      [] ch = ")" ->
           IF depth - 1 = 0
           THEN [inner |-> Slice(s, start + 1, i), next |-> i + 1,
                 issues |-> IF sawNested
                            THEN Append(issues,
                                   Issue("NESTED_ROUND_NOT_ALLOWED", Slice(s, start, i + 1), path))
                            ELSE issues]
           ELSE roundLoop(s, start, i + 1, depth - 1, sawNested, path, issues)
      [] OTHER -> roundLoop(s, start, i + 1, depth, sawNested, path, issues)

\* The reader's result with its issues of the given code left out.
withoutCode(r, code) ==
  [r EXCEPT !.issues = SelectSeq(r.issues, LAMBDA v : v.code # code)]

\* Mutant of readRoundFlat: a nested '(' is not reported.
readRoundFlat_unflagged(s, start, path, issues) ==
  withoutCode(roundLoop(s, start, start + 1, 1, FALSE, path, issues),
              "NESTED_ROUND_NOT_ALLOWED")

readRoundFlat(s, start, path, issues) ==
  roundLoop(s, start, start + 1, 1, FALSE, path, issues)

\* The loop of readSquareBalanced from index i.
RECURSIVE squareLoop(_, _, _, _, _, _)

\* The '(' case of the loop once readRoundFlat returned r: i = r.next.
squareSkipRound(s, start, depth, path, r) ==
  squareLoop(s, start, r.next, depth, path, r.issues)

squareLoop(s, start, i, depth, path, issues) ==
  IF i >= Len(s)
  THEN [inner |-> SliceFrom(s, start + 1), next |-> Len(s),
        issues |-> Append(issues, Issue("UNMATCHED_SQUARE", SliceFrom(s, start), path))]
  ELSE
    LET ch == At(s, i) IN
    CASE ch = "[" -> squareLoop(s, start, i + 1, depth + 1, path, issues)
      [] ch = "]" ->
           IF depth - 1 = 0
           THEN [inner |-> Slice(s, start + 1, i), next |-> i + 1, issues |-> issues]
           ELSE squareLoop(s, start, i + 1, depth - 1, path, issues)
      [] ch = "(" ->
           squareSkipRound(s, start, depth, path, readRoundFlat(s, i, path, issues))
      [] OTHER -> squareLoop(s, start, i + 1, depth, path, issues)

\* Mutant of readSquareBalanced: an unmatched '[' is not reported.
readSquareBalanced_quiet(s, start, path, issues) ==
  withoutCode(squareLoop(s, start, start + 1, 1, path, issues), "UNMATCHED_SQUARE")

\* An unmatched '[' leaves the cursor on the bracket.
stayOnUnmatched(start, issues, r) ==
  IF Len(r.issues) > Len(issues) /\ r.issues[Len(r.issues)].code = "UNMATCHED_SQUARE"
  THEN [r EXCEPT !.next = start]
  ELSE r

\* Mutant of readSquareBalanced: an unmatched '[' leaves the cursor on the bracket.
readSquareBalanced_stay(s, start, path, issues) ==
  stayOnUnmatched(start, issues, squareLoop(s, start, start + 1, 1, path, issues))

readSquareBalanced(s, start, path, issues) ==
  squareLoop(s, start, start + 1, 1, path, issues)

(* ------------------------ parseNode / parseMemberList ----------------- *)

\* The return value null of parseNode.
NoNode == [kind |-> "null"]

\* The first index >= i of '[' or '(' in entryRaw, or its length.
RECURSIVE nameEnd(_, _)
nameEnd(entryRaw, i) ==
  IF i < Len(entryRaw) /\ At(entryRaw, i) # "[" /\ At(entryRaw, i) # "("
  THEN nameEnd(entryRaw, i + 1)
  ELSE i

\* Mutant of hasNestedSquare: a separator too makes the bracket a group.
hasNestedSquare_orSeparator(inner) == Includes(inner, "[") \/ Includes(inner, ";")

\* inner.includes("[")
hasNestedSquare(inner) == Includes(inner, "[")

\* Mutant of candidateName: the name is not trimmed.
candidateName_untrimmed(entryRaw, i) == Slice(entryRaw, 0, i)

\* entryRaw.slice(0, i).trim()
candidateName(entryRaw, i) == Trim(Slice(entryRaw, 0, i))

\* Mutant of pushFragment: the fragment is put in front.
pushFragment_front(fragments, f) == <<f>> \o fragments

\* fragments.push(f)
pushFragment(fragments, f) == Append(fragments, f)

\* Mutant of pushMember: a raw member is not kept.
pushMember_nodesOnly(out, m) == IF m.kind = "raw" THEN out ELSE Append(out, m)

\* out.push(m) of parseMemberList
pushMember(out, m) == Append(out, m)

\* Mutant of sawSeparator: any ';' of the inner text counts.
sawSeparator_anywhere(inner, calls) == Includes(inner, ";")

\* hasSep after the scan of inner: the callback saw a ';' (calls are the
\* indices the callback was invoked with).
sawSeparator(inner, calls) == \E k \in 1..Len(calls) : At(inner, calls[k]) = ";"

\* Mutant of missingName: an empty name is let through.
missingName_never(name) == FALSE

\* !name
missingName(name) == name = <<>>

RECURSIVE parseNode(_, _, _)
RECURSIVE parseLoop(_, _, _, _, _, _, _)
RECURSIVE parseMemberList(_, _, _)
RECURSIVE memberLoop(_, _, _, _, _, _)

\* ctx is [issues, nextId]: the issue list of the parse and the number of
\* node objects allocated so far.
\* History fields of a fragment: at, next (the cursor before and after it);
\* of a group: pieces (the index k of the piece each member came from).

\* Mutant of orderChecked: the order of the fragments is never reported.
orderChecked_never(entryRaw, path, i, seenInfo, issues) == issues

\* Mutant of orderChecked: the issue is pushed whether or not an info
\* fragment was seen.
orderChecked_always(entryRaw, path, i, seenInfo, issues) ==
  Append(issues, Issue("INVALID_FRAGMENT_ORDER", SliceFrom(entryRaw, i), path))

\* The issue list after the order test `if (seenInfo)` of the '[' branch.
orderChecked(entryRaw, path, i, seenInfo, issues) ==
  IF seenInfo
  THEN Append(issues, Issue("INVALID_FRAGMENT_ORDER", SliceFrom(entryRaw, i), path))
  ELSE issues

\* The group fragment pushed once parseMemberList returned ml.
groupFragment(i, r, ml) ==
  [fragment |-> [kind |-> "group", raw |-> r.inner, members |-> ml.out,
                 at |-> i, next |-> r.next, pieces |-> ml.pieces],
   ctx |-> ml.ctx, next |-> r.next]

\* The alias fragment pushed, with the issue of a top-level separator.
aliasFragment(path, i, nextId, r, sc) ==
  [fragment |-> [kind |-> "alias", raw |-> Trim(r.inner), at |-> i, next |-> r.next],
   ctx |-> [issues |-> IF sawSeparator(r.inner, sc.calls)
                       THEN Append(sc.issues,
                              Issue("AMBIGUOUS_SQUARE_LIST",
                                    <<"[">> \o r.inner \o <<"]">>, path))
                       ELSE sc.issues,
            nextId |-> nextId],
   next |-> r.next]

\* The '[' branch after the scan sc of the inner text of r.
squareScanned(path, i, nextId, r, sc) ==
  IF hasNestedSquare(r.inner)
  THEN groupFragment(i, r,
         parseMemberList(r.inner, path \o ".group",
                         [issues |-> sc.issues, nextId |-> nextId]))
  ELSE aliasFragment(path, i, nextId, r, sc)

\* The '[' branch after readSquareBalanced returned r.
squareRead(path, i, nextId, r) ==
  squareScanned(path, i, nextId, r, scanTopLevel(r.inner, path \o ".square", r.issues))

\* The '[' branch of the fragment loop at index i: the issues and the fragment
\* it appends, and the cursor it leaves.
squareFragment(entryRaw, path, i, seenInfo, ctx) ==
  squareRead(path, i, ctx.nextId,
             readSquareBalanced(entryRaw, i, path,
                                orderChecked(entryRaw, path, i, seenInfo, ctx.issues)))

\* The text of s before its first ','.
BeforeComma(s) ==
  IF Includes(s, ",")
  THEN SubSeq(s, 1, (CHOOSE p \in 1..Len(s) : s[p] = "," /\ \A q \in 1..(p - 1) : s[q] # ",") - 1)
  ELSE s

\* Mutant of infoFragment: the inner text is cut at its first ','.
infoFragment_firstItem(i, nextId, r) ==
  [fragment |-> [kind |-> "info", raw |-> Trim(BeforeComma(r.inner)), at |-> i, next |-> r.next],
   ctx |-> [issues |-> r.issues, nextId |-> nextId],
   next |-> r.next]

\* The info fragment pushed once readRoundFlat returned r.
infoFragment(i, nextId, r) ==
  [fragment |-> [kind |-> "info", raw |-> Trim(r.inner), at |-> i, next |-> r.next],
   ctx |-> [issues |-> r.issues, nextId |-> nextId],
   next |-> r.next]

\* The '(' branch of the fragment loop at index i.
roundFragment(entryRaw, path, i, ctx) ==
  infoFragment(i, ctx.nextId, readRoundFlat(entryRaw, i, path, ctx.issues))

\* The fragment loop goes on after fragment f was read: fragments.push, i = next.
afterFragment(entryRaw, path, fragments, seenInfo, steps, f) ==
  parseLoop(entryRaw, path, f.next, pushFragment(fragments, f.fragment), seenInfo,
            f.ctx, steps + 1)

\* The fragment loop of parseNode from index i.  steps (history) counts the
\* iterations; the loop is cut, with stuck set, once it has run more often
\* than entryRaw has characters, which a loop that advances never does.
parseLoop(entryRaw, path, i, fragments, seenInfo, ctx, steps) ==
  IF i >= Len(entryRaw)
  THEN [fragments |-> fragments, ctx |-> ctx, steps |-> steps, stuck |-> FALSE]
  ELSE IF steps > Len(entryRaw)
  THEN [fragments |-> fragments, ctx |-> ctx, steps |-> steps, stuck |-> TRUE]
  ELSE
    LET ch == At(entryRaw, i) IN
    CASE ch = " " ->
           parseLoop(entryRaw, path, i + 1, fragments, seenInfo, ctx, steps + 1)
      [] ch = "(" ->
           afterFragment(entryRaw, path, fragments, TRUE, steps,
                         roundFragment(entryRaw, path, i, ctx))
      [] ch = "[" ->
           afterFragment(entryRaw, path, fragments, seenInfo, steps,
                         squareFragment(entryRaw, path, i, seenInfo, ctx))
      [] OTHER ->
           parseLoop(entryRaw, path, i + 1, fragments, seenInfo, ctx, steps + 1)

\* The node returned once the fragment loop returned l.
\* History fields of a node: entry and path (the arguments it was parsed
\* from), start (where its fragment loop began), steps and stuck (of its
\* fragment loop).
nodeOf(entryRaw, path, i, name, l) ==
  [node |-> [kind |-> "node", id |-> l.ctx.nextId + 1, name |-> name,
             fragments |-> l.fragments,
             entry |-> entryRaw, path |-> path, start |-> i,
             steps |-> l.steps, stuck |-> l.stuck],
   ctx |-> [issues |-> l.ctx.issues, nextId |-> l.ctx.nextId + 1]]

\* parseNode once the name ends at index i.
parseNamed(entryRaw, path, ctx, i) ==
  IF missingName(candidateName(entryRaw, i))
  THEN [node |-> NoNode,
        ctx |-> [issues |-> Append(ctx.issues, Issue("MISSING_NAME", entryRaw, path)),
                 nextId |-> ctx.nextId]]
  ELSE nodeOf(entryRaw, path, i, candidateName(entryRaw, i),
              parseLoop(entryRaw, path, i, <<>>, FALSE, ctx, 0))

parseNode(entryRaw, path, ctx) == parseNamed(entryRaw, path, ctx, nameEnd(entryRaw, 0))

\* The loop of parseMemberList goes on after parseNode returned n for piece k.
afterMember(parts, k, path, out, pieces, n) ==
  IF n.node # NoNode
  THEN memberLoop(parts, k + 1, path, pushMember(out, n.node), Append(pieces, k), n.ctx)
  ELSE memberLoop(parts, k + 1, path, out, pieces, n.ctx)

\* One turn of the loop of parseMemberList for the trimmed piece k.
memberPiece(parts, k, path, out, pieces, ctx, piece) ==
  IF piece = <<>> THEN memberLoop(parts, k + 1, path, out, pieces, ctx)
  ELSE IF piece[1] = "["
  THEN memberLoop(parts, k + 1, path,
                  pushMember(out, [kind |-> "raw", raw |-> piece]), Append(pieces, k),
                  [issues |-> Append(ctx.issues,
                                Issue("INVALID_MEMBER_ALIAS_ONLY", piece, Indexed(path, k))),
                   nextId |-> ctx.nextId])
  ELSE afterMember(parts, k, path, out, pieces, parseNode(piece, Indexed(path, k), ctx))

\* The loop of parseMemberList from k (0-based, as in the code).
memberLoop(parts, k, path, out, pieces, ctx) ==
  IF k >= Len(parts) THEN [out |-> out, pieces |-> pieces, ctx |-> ctx]
  ELSE memberPiece(parts, k, path, out, pieces, ctx, Trim(parts[k + 1]))

\* parseMemberList once the inner text is split into sp.
membersOf(path, nextId, sp) ==
  memberLoop(sp.out, 0, path, <<>>, <<>>, [issues |-> sp.issues, nextId |-> nextId])

parseMemberList(inner, path, ctx) ==
  membersOf(path, ctx.nextId, splitByTopLevelSemicolon(inner, path, ctx.issues))

(* ------------------------------ parseDataset -------------------------- *)

\* The first loop of parseDataset from i (0-based).
RECURSIVE topLoop(_, _, _, _)

\* The loop goes on after parseNode returned n for part i.
afterTop(parts, i, top, n) ==
  IF n.node # NoNode
  THEN topLoop(parts, i + 1, Append(top, n.node), n.ctx)
  ELSE topLoop(parts, i + 1, top, n.ctx)

\* One turn of the loop for the trimmed part i.
topPart(parts, i, top, ctx, raw) ==
  IF raw = <<>> THEN topLoop(parts, i + 1, top, ctx)
  ELSE afterTop(parts, i, top, parseNode(raw, Indexed("top", i), ctx))

topLoop(parts, i, top, ctx) ==
  IF i >= Len(parts) THEN [top |-> top, ctx |-> ctx]
  ELSE topPart(parts, i, top, ctx, Trim(parts[i + 1]))

\* visit: acc is [entries, seen]; seen holds node identities.
RECURSIVE visit(_, _)
RECURSIVE visitFragments(_, _, _)
RECURSIVE visitMembers(_, _, _)

\* The node is pushed onto the entries of a.
pushAfter(node, a) == [entries |-> Append(a.entries, node), seen |-> a.seen]

\* Mutant of visit: the node is pushed after its members were visited.
visit_childrenFirst(node, acc) ==
  IF node.id \in acc.seen THEN acc
  ELSE pushAfter(node, visitFragments(node.fragments, 1,
                         [entries |-> acc.entries, seen |-> acc.seen \cup {node.id}]))

visit(node, acc) ==
  IF node.id \in acc.seen THEN acc
  ELSE visitFragments(node.fragments, 1,
         [entries |-> Append(acc.entries, node), seen |-> acc.seen \cup {node.id}])

visitFragments(fragments, j, acc) ==
  IF j > Len(fragments) THEN acc
  ELSE IF fragments[j].kind # "group" THEN visitFragments(fragments, j + 1, acc)
  ELSE visitFragments(fragments, j + 1, visitMembers(fragments[j].members, 1, acc))

visitMembers(members, k, acc) ==
  IF k > Len(members) THEN acc
  ELSE IF members[k].kind = "node"
  THEN visitMembers(members, k + 1, visit(members[k], acc))
  ELSE visitMembers(members, k + 1, acc)

\* for (const n of top) visit(n)
RECURSIVE visitAll(_, _, _)
visitAll(top, j, acc) ==
  IF j > Len(top) THEN acc ELSE visitAll(top, j + 1, visit(top[j], acc))

\* The Dataset returned once the visit v of the top nodes t is done.
\* History fields of a Dataset: parts (the pieces of the input) and top.
datasetOf(parts, t, v) ==
  [entries |-> v.entries, issuesDetailed |-> t.ctx.issues, parts |-> parts, top |-> t.top]

\* parseDataset after its first loop returned t.
datasetVisited(parts, t) ==
  datasetOf(parts, t, visitAll(t.top, 1, [entries |-> <<>>, seen |-> {}]))

\* parseDataset once the text is split into sp.
datasetSplit(sp) ==
  datasetVisited(sp.out, topLoop(sp.out, 0, <<>>, [issues |-> sp.issues, nextId |-> 0]))

parseDataset(text) == datasetSplit(splitByTopLevelSemicolon(text, "input", <<>>))

(* ---------------------------- stringifyDataset ------------------------ *)

RECURSIVE stringifyNode(_)
RECURSIVE stringifyFragment(_)
RECURSIVE stringifyCharacter(_)

stringifyCharacter(c) ==
  IF c.kind = "raw" THEN Trim(c.raw) ELSE stringifyNode(c)

\* Mutant of stringifyFragment: a group is rendered from its stored raw text.
stringifyFragment_fromRaw(f) ==
  IF f.kind = "info" THEN <<" ", "(">> \o Trim(f.raw) \o <<")">>
  ELSE <<" ", "[">> \o Trim(f.raw) \o <<"]">>

stringifyFragment(f) ==
  IF f.kind = "info" THEN <<" ", "(">> \o Trim(f.raw) \o <<")">>
  ELSE IF f.kind = "alias" THEN <<" ", "[">> \o Trim(f.raw) \o <<"]">>
  ELSE <<" ", "[">>
       \o Join([k \in 1..Len(f.members) |-> stringifyCharacter(f.members[k])], <<";", " ">>)
       \o <<"]">>

\* out += stringifyFragment(f), for the fragments from the j-th on.
RECURSIVE stringifyFragments(_, _, _)
stringifyFragments(fragments, j, out) ==
  IF j > Len(fragments) THEN out
  ELSE stringifyFragments(fragments, j + 1, out \o stringifyFragment(fragments[j]))

stringifyNode(n) == stringifyFragments(n.fragments, 1, Trim(n.name))

\* The members of the group fragments of node n.
groupMembers(n) ==
  UNION { { n.fragments[j].members[k] : k \in 1..Len(n.fragments[j].members) }
          : j \in { x \in 1..Len(n.fragments) : n.fragments[x].kind = "group" } }

\* Mutant of children: membership by name (value) instead of by identity.
children_byName(entries) ==
  { entries[e].id :
      e \in { x \in 1..Len(entries) :
                entries[x].name \in
                  { m.name : m \in { c \in UNION { groupMembers(entries[y]) : y \in 1..Len(entries) }
                                     : c.kind = "node" } } } }

\* The set children of stringifyDataset: the identities of the node members
\* of the group fragments of the entries.
children(entries) ==
  { m.id : m \in { c \in UNION { groupMembers(entries[e]) : e \in 1..Len(entries) }
                   : c.kind = "node" } }

\* The entries that are not in ch, in order.
notIn(entries, ch) == SelectSeq(entries, LAMBDA n : n.id \notin ch)

\* The array roots of stringifyDataset.
roots(dataset) == notIn(dataset.entries, children(dataset.entries))

\* Mutant of stringifyRoots: the trailing ';' is appended whatever r holds.
stringifyRoots_always(r) ==
  Join([k \in 1..Len(r) |-> stringifyNode(r[k])], <<";", " ">>) \o <<";">>

\* The text returned for the roots r.
stringifyRoots(r) ==
  Join([k \in 1..Len(r) |-> stringifyNode(r[k])], <<";", " ">>)
  \o (IF Len(r) # 0 THEN <<";">> ELSE <<>>)

stringifyDataset(dataset) == stringifyRoots(roots(dataset))

(* --------------------------- the round trip --------------------------- *)

\* Every text of at most MaxLen characters over Chars.
Texts == UNION { [1..n -> Chars] : n \in 0..MaxLen }

\* The example inputs of the documentation and of indempotenceTest.js.  The
\* longer ones are cut down: the evaluation of a loop nests once per character.
\* Jimmy Olsen (origin, death);
JimmyOlsen ==
  <<"J", "i", "m", "m", "y", " ", "O", "l", "s", "e", "n", " ", "(", "o", "r", "i",
    "g", "i", "n", ",", " ", "d", "e", "a", "t", "h", ")", ";">>

\* Superman [Clark Kent; Kal-El];
Superman ==
  <<"S", "u", "p", "e", "r", "m", "a", "n", " ", "[", "C", "l", "a", "r", "k", " ",
    "K", "e", "n", "t", ";", " ", "K", "a", "l", "-", "E", "l", "]", ";">>

\* [Solo];
Solo ==
  <<"[", "S", "o", "l", "o", "]", ";">>

\* Zeta (a,b;
Zeta ==
  <<"Z", "e", "t", "a", " ", "(", "a", ",", "b", ";">>

\* Iota [A] (x) [B] (y);
Iota ==
  <<"I", "o", "t", "a", " ", "[", "A", "]", " ", "(", "x", ")", " ", "[", "B", "]",
    " ", "(", "y", ")", ";">>

\* J [W; B [b]];  ("Justice League [Wonder Woman; Batman [Bruce Wayne]];" with each name cut to a letter)
League ==
  <<"J", " ", "[", "W", ";", " ", "B", " ", "[", "b", "]", "]", ";">>

\* J [W (x; y); B [b]];  (the same group with an info fragment that holds a separator)
LeagueInfo ==
  <<"J", " ", "[", "W", " ", "(", "x", ";", " ", "y", ")", ";", " ", "B", " ", "[",
    "b", "]", "]", ";">>

\* a [b; c] [d [e; f]];  (an alias list and a group in one entry)
Mixed ==
  <<"a", " ", "[", "b", ";", " ", "c", "]", " ", "[", "d", " ", "[", "e", ";", " ",
    "f", "]", "]", ";">>

\* \nF (a; b);\nB [x; y];\n  (the fourth input of indempotenceTest.js, shortened, with its line breaks)
FooBar ==
  <<"\n", "F", " ", "(", "a", ";", " ", "b", ")", ";", "\n", "B", " ", "[", "x", ";",
    " ", "y", "]", ";", "\n">>

\* a [[x]; b [c [d]]; e];  (a group holding a raw member, a nested group and a plain member)
Nested ==
  <<"a", " ", "[", "[", "x", "]", ";", " ", "b", " ", "[", "c", " ", "[", "d", "]", "]", ";",
    " ", "e", "]", ";">>

\* (x); a [(y); b [c]];  (an entry and a member with no name)
Dropped ==
  <<"(", "x", ")", ";", " ", "a", " ", "[", "(", "y", ")", ";", " ", "b", " ", "[",
    "c", "]", "]", ";">>

\* a [b; c [d] [d]] (f);  (several members, several fragments, two of them equal)
Ordered ==
  <<"a", " ", "[", "b", ";", " ", "c", " ", "[", "d", "]", " ", "[", "d", "]", "]",
    " ", "(", "f", ")", ";">>

\* a (i); b [c] [d; e [f]];  (two roots: an info fragment, an alias, a group of two members)
Roster ==
  <<"a", " ", "(", "i", ")", ";", " ", "b", " ", "[", "c", "]", " ", "[", "d", ";", " ",
  "e", " ", "[", "f", "]", "]", ";">>

\* a([)]; b;  (a ']' after the fragment that holds its '[')
Crossed == <<"a", "(", "[", ")", "]", ";", " ", "b", ";">>

\* a [[x]; ; b];  (a group with a raw member, an empty piece and a node member)
Gaps == <<"a", " ", "[", "[", "x", "]", ";", " ", ";", " ", "b", "]", ";">>

\* a [b ((x)); c [d]];  (a nested-round span in a member of a group)
NestedInfo ==
  <<"a", " ", "[", "b", " ", "(", "(", "x", ")", ")", ";", " ", "c", " ", "[", "d", "]", "]", ";">>

\* a ([); b;  (a ';' after an info fragment that holds a '[')
Lost == <<"a", " ", "(", "[", ")", ";", " ", "b", ";">>

\* a;\r\nb (\fc);  (line ends of carriage return and line feed, a form feed)
CrLf ==
  <<"a", ";", "\r", "\n", "b", " ", "(", "\f", "c", ")", ";">>

Scenarios ==
  {JimmyOlsen, Superman, Solo, Zeta, Iota, League, LeagueInfo, Mixed, FooBar, Nested,
   Dropped, Ordered, Roster, Crossed, Gaps, NestedInfo,
   Lost, CrLf}

\* The inputs of the round trip.
Inputs == Texts \cup Scenarios

NoDataset == [entries |-> <<>>, issuesDetailed |-> <<>>, parts |-> <<>>, top |-> <<>>]

Init ==
  /\ input \in Inputs
  /\ pc = "input"
  /\ ds = NoDataset
  /\ canon = <<>>
  /\ ds2 = NoDataset
  /\ canon2 = <<>>

\* parseDataset(input)
Parse ==
  /\ pc = "input"
  /\ ds' = parseDataset(input)
  /\ pc' = "parsed"
  /\ UNCHANGED <<input, canon, ds2, canon2>>

\* canon = stringifyDataset(parseDataset(input))
Stringify ==
  /\ pc = "parsed"
  /\ canon' = stringifyDataset(ds)
  /\ pc' = "canon"
  /\ UNCHANGED <<input, ds, ds2, canon2>>

\* parseDataset(canon)
Reparse ==
  /\ pc = "canon"
  /\ ds2' = parseDataset(canon)
  /\ pc' = "reparsed"
  /\ UNCHANGED <<input, ds, canon, canon2>>

\* output = stringifyDataset(parseDataset(canon))
Restringify ==
  /\ pc = "reparsed"
  /\ canon2' = stringifyDataset(ds2)
  /\ pc' = "output"
  /\ UNCHANGED <<input, ds, canon, ds2>>

Next == Parse \/ Stringify \/ Reparse \/ Restringify

Spec == Init /\ [][Next]_vars

(* ------------------------- reading a Dataset -------------------------- *)

\* The node-variant members of the group fragments of node n.
nodeMembers(n) == { c \in groupMembers(n) : c.kind = "node" }

\* Node n and every node below it.
RECURSIVE subNodes(_)
subNodes(n) == {n} \cup UNION { subNodes(m) : m \in nodeMembers(n) }

\* Every node of the tree the top-level nodes of dataset d span.
treeNodes(d) == UNION { subNodes(d.top[k]) : k \in 1..Len(d.top) }

\* Every node either parse of the round trip has built so far.
builtNodes == treeNodes(ds) \cup treeNodes(ds2)

\* The sequences of ss, one after the other.
RECURSIVE Flatten(_)
Flatten(ss) == IF ss = <<>> THEN <<>> ELSE Head(ss) \o Flatten(Tail(ss))

HasIssue(d, code) ==
  \E k \in 1..Len(d.issuesDetailed) : d.issuesDetailed[k].code = code

(* ------------------------------- claims ------------------------------- *)

\* C1: the canonical form is a fixed point: once output =
\* stringifyDataset(parseDataset(canon)) is computed, it equals canon, for
\* every input text, malformed ones included.
C1_Idempotent == pc = "output" => canon2 = canon

\* C2: parseDataset is total.  In every node built, the fragment loop was
\* never cut (it ran at most once per character after the name), every
\* fragment's reader left the cursor strictly after its opening bracket and
\* inside the text, and every member node was parsed from a text strictly
\* shorter than its parent's; on the input itself, each reader started at
\* any opening bracket returns a cursor strictly after it; and what Parse
\* returns is a Dataset.
C2_Total ==
  /\ \A n \in builtNodes :
        /\ ~n.stuck
        /\ n.steps <= Len(n.entry) - n.start
        /\ \A j \in 1..Len(n.fragments) :
              /\ n.fragments[j].at < n.fragments[j].next
              /\ n.fragments[j].next <= Len(n.entry)
        /\ \A m \in nodeMembers(n) : Len(m.entry) < Len(n.entry)
  /\ \A i \in 0..(Len(input) - 1) :
        /\ At(input, i) = "(" =>
              readRoundFlat(input, i, "input", <<>>).next \in (i + 1)..Len(input)
        /\ At(input, i) = "[" =>
              readSquareBalanced(input, i, "input", <<>>).next \in (i + 1)..Len(input)
  /\ \A k \in 1..Len(ds.entries) : ds.entries[k].kind = "node"
  /\ \A k \in 1..Len(ds.issuesDetailed) : ds.issuesDetailed[k].code \in IssueCodes

\* C2 witness: a parse that recursed into a member whose own fragment loop
\* ran, on an input with an unmatched '['.
C2_Witness ==
  /\ pc = "parsed"
  /\ HasIssue(ds, "UNMATCHED_SQUARE")
  /\ \E n \in treeNodes(ds) : \E m \in nodeMembers(n) : m.steps > 0

\* The pre-order listing of node n and the nodes below it.
RECURSIVE preorder(_)
preorder(n) ==
  <<n>> \o Flatten([j \in 1..Len(n.fragments) |->
          IF n.fragments[j].kind = "group"
          THEN Flatten([k \in 1..Len(n.fragments[j].members) |->
                 IF n.fragments[j].members[k].kind = "node"
                 THEN preorder(n.fragments[j].members[k])
                 ELSE <<>>])
          ELSE <<>>])

EntriesArePreorder(d) ==
  /\ d.entries = Flatten([k \in 1..Len(d.top) |-> preorder(d.top[k])])
  /\ \A x, y \in 1..Len(d.entries) : d.entries[x].id = d.entries[y].id => x = y
  /\ \A x \in 1..Len(d.entries) : d.entries[x].kind = "node"
  /\ { d.entries[x] : x \in 1..Len(d.entries) } = treeNodes(d)

\* C3: entries is the depth-first, left-to-right, first-visit listing of the
\* top-level nodes and their node members: every node of the tree is in it,
\* no node twice, no raw member.
C3_EntriesPreorder == EntriesArePreorder(ds) /\ EntriesArePreorder(ds2)

\* C3 witness: a parsed group that holds a node member with a member of its
\* own next to a raw member.
C3_Witness ==
  /\ pc = "parsed"
  /\ \E n \in treeNodes(ds) :
        /\ \E c \in groupMembers(n) : c.kind = "raw"
        /\ \E m \in nodeMembers(n) : nodeMembers(m) # {}


\* The identities of the nodes that are a member of a group of some node of
\* the tree of d.
memberIds(d) == { m.id : m \in UNION { nodeMembers(n) : n \in treeNodes(d) } }

Ids(nodes) == [k \in 1..Len(nodes) |-> nodes[k].id]

RootsAreTop(d) ==
  /\ \A k \in 1..Len(roots(d)) : roots(d)[k].id \notin memberIds(d)
  /\ Ids(roots(d)) = Ids(d.top)

\* C4: no node that is a member of a group is rendered as a top-level
\* segment: the roots are exactly the top-level nodes, by identity and in
\* order, also when a member has the name of a top-level node, and the
\* canonical text is the top-level nodes' renderings joined by "; ", so a
\* member's text stands only inside its parent's brackets.
C4_RootFiltering ==
  /\ RootsAreTop(ds)
  /\ RootsAreTop(ds2)
  /\ pc \in {"canon", "reparsed", "output"} =>
       canon = Join([k \in 1..Len(ds.top) |-> stringifyNode(ds.top[k])], <<";", " ">>)
               \o (IF ds.top # <<>> THEN <<";">> ELSE <<>>)

\* C4 witness: a rendered Dataset in which a member has the name of a
\* top-level node.
C4_Witness ==
  /\ pc = "canon"
  /\ \E k \in 1..Len(ds.top) : \E n \in treeNodes(ds) : \E m \in nodeMembers(n) :
       m.name = ds.top[k].name /\ m.id # ds.top[k].id

\* The number of positions a..b of s (1-based) that hold character c.
Count(s, c, a, b) == Cardinality({ r \in a..b : s[r] = c })

\* Some opener before position p (1-based) of s has no closer before p:
\* from the opener on, every stretch that ends before p holds more openers
\* than closers.
Unclosed(s, open, close, p) ==
  \E q \in 1..(p - 1) :
    /\ s[q] = open
    /\ \A r \in q..(p - 1) : Count(s, open, q, r) > Count(s, close, q, r)

\* The position in the joined text of the separator after piece k of out.
RECURSIVE SeparatorAt(_, _)
SeparatorAt(out, k) ==
  IF k = 1 THEN Len(out[1]) + 1 ELSE SeparatorAt(out, k - 1) + Len(out[k]) + 1

\* out cuts s, and only at separators that no unclosed bracket precedes.
SplitScoped(s, out) ==
  /\ Join(out, <<";">>) = s
  /\ \A k \in 1..(Len(out) - 1) :
       LET p == SeparatorAt(out, k) IN
       /\ s[p] = ";"
       /\ ~Unclosed(s, "(", ")", p)
       /\ ~Unclosed(s, "[", "]", p)

\* The group fragments of node n.
groupFragments(n) ==
  { n.fragments[j] : j \in { x \in 1..Len(n.fragments) : n.fragments[x].kind = "group" } }

\* C5: splitByTopLevelSemicolon cuts only at a ';' that follows no unclosed
\* '(' and no unclosed '[': for the pieces of the input and for the pieces
\* of the inner text of every group, whose members are parsed from them.
C5_SeparatorScoping ==
  /\ SplitScoped(input, splitByTopLevelSemicolon(input, "input", <<>>).out)
  /\ pc # "input" => ds.parts = splitByTopLevelSemicolon(input, "input", <<>>).out
  /\ \A n \in builtNodes : \A f \in groupFragments(n) :
       LET out == splitByTopLevelSemicolon(f.raw, "group", <<>>).out IN
       /\ SplitScoped(f.raw, out)
       /\ \A x \in 1..Len(f.members) :
            Trim(out[f.pieces[x] + 1]) =
              (IF f.members[x].kind = "node" THEN f.members[x].entry ELSE f.members[x].raw)

\* C5 witness: a parsed input cut into entries, one of which holds a group
\* cut into members, one of which holds a ';' inside round brackets.
C5_Witness ==
  /\ pc = "parsed"
  /\ Len(ds.parts) >= 2
  /\ \E n \in treeNodes(ds) : \E f \in groupFragments(n) :
       /\ Len(f.members) >= 2
       /\ \E x \in 1..Len(f.members) :
            f.members[x].kind = "node" /\ Includes(f.members[x].entry, ";")

\* The inner text readSquareBalanced returns for the '[' at index i of text.
innerAt(text, i) == readSquareBalanced(text, i, "inner", <<>>).inner

\* C6: a '[' fragment is a group exactly if its inner text holds a '[';
\* otherwise it is one alias fragment whose raw is the whole inner text
\* trimmed, whether or not that holds a ';'.  One fragment stands for each
\* bracket.
C6_GroupOrAlias ==
  \A n \in builtNodes : \A j \in 1..Len(n.fragments) :
    LET f == n.fragments[j] IN
    /\ At(n.entry, f.at) \in {"[", "("}
    /\ At(n.entry, f.at) = "(" <=> f.kind = "info"
    /\ At(n.entry, f.at) = "[" =>
         /\ f.kind = "group" <=> Includes(innerAt(n.entry, f.at), "[")
         /\ f.kind # "group" => f.kind = "alias" /\ f.raw = Trim(innerAt(n.entry, f.at))
         /\ f.kind = "group" => f.raw = innerAt(n.entry, f.at)
    /\ \A x \in 1..Len(n.fragments) : n.fragments[x].at = f.at => x = j

\* C6 witness: a parsed entry with an alias that holds a ';' and a group.
C6_Witness ==
  /\ pc = "parsed"
  /\ \E n \in treeNodes(ds) : \E j, x \in 1..Len(n.fragments) :
       /\ n.fragments[j].kind = "alias" /\ Includes(n.fragments[j].raw, ";")
       /\ n.fragments[x].kind = "group"


\* The number of issues of d equal to v.
IssueCount(d, v) ==
  Cardinality({ k \in 1..Len(d.issuesDetailed) : d.issuesDetailed[k] = v })

\* The issues of d with the given code.
IssuesOf(d, code) ==
  { d.issuesDetailed[k] : k \in { x \in 1..Len(d.issuesDetailed) : d.issuesDetailed[x].code = code } }

\* The '[' fragments of the tree of d, each as <<node, index>>.
squareSites(d) ==
  UNION { { <<n, j>> : j \in { x \in 1..Len(n.fragments) :
                                 At(n.entry, n.fragments[x].at) = "[" } }
          : n \in treeNodes(d) }

\* The inner text of '[' fragment j of node n.
siteInner(site) == innerAt(site[1].entry, site[1].fragments[site[2]].at)

\* text has a ';' that no unclosed bracket precedes.
TopLevelSeparator(text) ==
  \E p \in 1..Len(text) :
    text[p] = ";" /\ ~Unclosed(text, "(", ")", p) /\ ~Unclosed(text, "[", "]", p)

\* The '[' fragments that are ambiguous: no '[' inside, a top-level ';'.
ambiguousSites(d) ==
  { s \in squareSites(d) :
      ~Includes(siteInner(s), "[") /\ TopLevelSeparator(siteInner(s)) }

ambiguousIssue(site) ==
  Issue("AMBIGUOUS_SQUARE_LIST", <<"[">> \o siteInner(site) \o <<"]">>, site[1].path)

AmbiguousExactly(d) ==
  /\ \A s \in ambiguousSites(d) :
       /\ s[1].fragments[s[2]].kind = "alias"
       /\ s[1].fragments[s[2]].raw = Trim(siteInner(s))
       /\ IssueCount(d, ambiguousIssue(s))
            = Cardinality({ o \in ambiguousSites(d) : ambiguousIssue(o) = ambiguousIssue(s) })
  /\ \A v \in IssuesOf(d, "AMBIGUOUS_SQUARE_LIST") :
       \E s \in ambiguousSites(d) : ambiguousIssue(s) = v

\* C7: AMBIGUOUS_SQUARE_LIST is emitted, once, for exactly the '[' fragments
\* whose inner text has no '[' and has a ';' at top level, and such a
\* fragment is one alias.  "Superman [Clark Kent; Kal-El];" parses to one
\* node with that one alias and that one issue, and renders to itself.
C7_Ambiguous ==
  /\ AmbiguousExactly(ds)
  /\ AmbiguousExactly(ds2)
  /\ (input = Superman /\ pc # "input") =>
       /\ Len(ds.entries) = 1
       /\ ds.entries[1].name = SubSeq(Superman, 1, 8)
       /\ Len(ds.entries[1].fragments) = 1
       /\ ds.entries[1].fragments[1].kind = "alias"
       /\ ds.entries[1].fragments[1].raw = SubSeq(Superman, 11, 28)
       /\ ds.issuesDetailed
            = << Issue("AMBIGUOUS_SQUARE_LIST", SubSeq(Superman, 10, 29), "top[0]") >>
  /\ (input = Superman /\ pc \in {"canon", "reparsed", "output"}) => canon = Superman

\* C7 witness: the Superman example, parsed and rendered, with its issue.
C7_Witness ==
  /\ pc = "canon"
  /\ input = Superman
  /\ HasIssue(ds, "AMBIGUOUS_SQUARE_LIST")


\* Nothing but whitespace stands before the first '[' or '(' of piece.
NameBlank(piece) ==
  \E p \in 1..Len(piece) :
    piece[p] \in {"[", "("} /\ \A q \in 1..(p - 1) : IsSpace(piece[q])

\* The pieces of the input that lack a name, each as its index i (0-based).
topDropSites(d) ==
  { i \in 0..(Len(d.parts) - 1) :
      Trim(d.parts[i + 1]) # <<>> /\ NameBlank(Trim(d.parts[i + 1])) }

topDropIssue(d, i) == Issue("MISSING_NAME", Trim(d.parts[i + 1]), Indexed("top", i))

\* The pieces of the inner text of group fragment j of node n.
memberPieces(n, j) == splitByTopLevelSemicolon(n.fragments[j].raw, "group", <<>>).out

\* The group fragments of the tree of d, each as <<node, index>>.
groupSites(d) ==
  UNION { { <<n, j>> : j \in { x \in 1..Len(n.fragments) : n.fragments[x].kind = "group" } }
          : n \in treeNodes(d) }

\* The member pieces that lack a name and do not start with '[', each as
\* <<node, fragment index, piece index (0-based)>>.
memberDropSites(d) ==
  UNION { { <<g[1], g[2], k>> : k \in { x \in 0..(Len(memberPieces(g[1], g[2])) - 1) :
              LET piece == Trim(memberPieces(g[1], g[2])[x + 1]) IN
              piece # <<>> /\ NameBlank(piece) /\ piece[1] # "[" } }
          : g \in groupSites(d) }

memberDropIssue(s) ==
  Issue("MISSING_NAME", Trim(memberPieces(s[1], s[2])[s[3] + 1]),
        Indexed(s[1].path \o ".group", s[3]))

\* The indices (1-based) of the pieces that are kept, in order: not empty
\* after trimming and, unless rawToo and the piece starts with '[', named.
RECURSIVE keptPieces(_, _, _)
keptPieces(parts, k, rawToo) ==
  IF k > Len(parts) THEN <<>>
  ELSE LET piece == Trim(parts[k]) IN
       IF piece # <<>> /\ (~NameBlank(piece) \/ (rawToo /\ piece[1] = "["))
       THEN <<k>> \o keptPieces(parts, k + 1, rawToo)
       ELSE keptPieces(parts, k + 1, rawToo)

MissingNameDrops(d) ==
  /\ \A i \in topDropSites(d) :
       IssueCount(d, topDropIssue(d, i))
         = Cardinality({ o \in topDropSites(d) : topDropIssue(d, o) = topDropIssue(d, i) })
           + Cardinality({ o \in memberDropSites(d) : memberDropIssue(o) = topDropIssue(d, i) })
  /\ \A s \in memberDropSites(d) :
       /\ IssueCount(d, memberDropIssue(s))
            = Cardinality({ o \in memberDropSites(d) : memberDropIssue(o) = memberDropIssue(s) })
              + Cardinality({ o \in topDropSites(d) : topDropIssue(d, o) = memberDropIssue(s) })
       /\ \A x \in 1..Len(s[1].fragments[s[2]].pieces) :
            s[1].fragments[s[2]].pieces[x] # s[3]
  /\ Cardinality(IssuesOf(d, "MISSING_NAME"))
       <= Cardinality(topDropSites(d)) + Cardinality(memberDropSites(d))
  /\ \A v \in IssuesOf(d, "MISSING_NAME") :
       \/ \E i \in topDropSites(d) : topDropIssue(d, i) = v
       \/ \E s \in memberDropSites(d) : memberDropIssue(s) = v
  /\ [k \in 1..Len(d.top) |-> d.top[k].entry]
       = [x \in 1..Len(keptPieces(d.parts, 1, FALSE)) |->
            Trim(d.parts[keptPieces(d.parts, 1, FALSE)[x]])]
  /\ \A g \in groupSites(d) :
       [x \in 1..Len(g[1].fragments[g[2]].pieces) |-> g[1].fragments[g[2]].pieces[x] + 1]
         = keptPieces(memberPieces(g[1], g[2]), 1, TRUE)
  /\ \A k \in 1..Len(d.entries) : d.entries[k].entry # <<>> /\ ~NameBlank(d.entries[k].entry)

\* C8: an entry or member whose text before its first bracket is blank (a
\* member that does not start with '[') gets exactly one MISSING_NAME issue
\* with its text as raw, and no node: the top-level nodes and the members of
\* every group are exactly the named pieces (and the '[' members), no node
\* of entries lacks a name.  "[Solo];" gives no entry and that one issue.
C8_MissingName ==
  /\ MissingNameDrops(ds)
  /\ MissingNameDrops(ds2)
  /\ (input = Solo /\ pc # "input") =>
       /\ ds.entries = <<>>
       /\ ds.issuesDetailed = << Issue("MISSING_NAME", SubSeq(Solo, 1, 6), "top[0]") >>

\* C8 witness: a parse that dropped a top-level entry and a group member.
C8_Witness ==
  /\ pc = "parsed"
  /\ topDropSites(ds) # {}
  /\ memberDropSites(ds) # {}
  /\ HasIssue(ds, "MISSING_NAME")

\* Every node of d, in entries or in a group, has a trimmed, non-empty name.
NamesTrimmed(d) ==
  \A n \in treeNodes(d) \cup { d.entries[k] : k \in 1..Len(d.entries) } :
    /\ n.name # <<>>
    /\ ~IsSpace(n.name[1])
    /\ ~IsSpace(n.name[Len(n.name)])

\* C9: every node of entries and every node member of every group has a
\* name that is not empty and has no leading or trailing whitespace.
C9_NameInvariant == NamesTrimmed(ds) /\ NamesTrimmed(ds2)

\* C9 witness: a parsed top-level node and a parsed member whose names had
\* whitespace before the first bracket.
C9_Witness ==
  /\ pc = "parsed"
  /\ \E k \in 1..Len(ds.top) : ds.top[k].start > Len(ds.top[k].name)
  /\ \E n \in treeNodes(ds) : \E m \in nodeMembers(n) : m.start > Len(m.name)

\* The indices at which the fragment loop, started at i, meets a bracket:
\* after a bracket it goes on where the bracket's reader stopped.
RECURSIVE fragmentStarts(_, _)
fragmentStarts(text, i) ==
  IF i >= Len(text) THEN <<>>
  ELSE IF At(text, i) = "("
  THEN <<i>> \o fragmentStarts(text, readRoundFlat(text, i, "text", <<>>).next)
  ELSE IF At(text, i) = "["
  THEN <<i>> \o fragmentStarts(text, readSquareBalanced(text, i, "text", <<>>).next)
  ELSE fragmentStarts(text, i + 1)

OrderKept(d) ==
  /\ \A n \in treeNodes(d) :
       /\ [j \in 1..Len(n.fragments) |-> n.fragments[j].at] = fragmentStarts(n.entry, n.start)
       /\ \A j \in 1..(Len(n.fragments) - 1) : n.fragments[j].at < n.fragments[j + 1].at
  /\ \A g \in groupSites(d) :
       LET f == g[1].fragments[g[2]] IN
       /\ Len(f.pieces) = Len(f.members)
       /\ \A x \in 1..(Len(f.pieces) - 1) : f.pieces[x] < f.pieces[x + 1]
       /\ \A x \in 1..Len(f.members) :
            Trim(memberPieces(g[1], g[2])[f.pieces[x] + 1]) =
              (IF f.members[x].kind = "node" THEN f.members[x].entry ELSE f.members[x].raw)

\* C10: the fragments of a node are in the order of their opening brackets
\* in the entry text, one for every bracket the fragment loop meets (none
\* reordered, none left out as a duplicate), and the members of a group are
\* in the order of their pieces in the group's inner text.
C10_OrderPreserved == OrderKept(ds) /\ OrderKept(ds2)

\* C10 witness: a parsed group of several members that another fragment
\* follows, and a parsed node with two equal fragments.
C10_Witness ==
  /\ pc = "parsed"
  /\ \E n \in treeNodes(ds) : \E j \in 1..(Len(n.fragments) - 1) :
       n.fragments[j].kind = "group" /\ Len(n.fragments[j].members) >= 2
  /\ \E n \in treeNodes(ds) : \E j \in 1..(Len(n.fragments) - 1) :
       /\ n.fragments[j].kind = n.fragments[j + 1].kind
       /\ n.fragments[j].raw = n.fragments[j + 1].raw

\* The canonical text of a node, a member and a fragment, as the render
\* format states it.
RECURSIVE NodeText(_)
MemberText(c) == IF c.kind = "node" THEN NodeText(c) ELSE Trim(c.raw)

FragmentText(f) ==
  CASE f.kind = "info" -> <<" ", "(">> \o f.raw \o <<")">>
    [] f.kind = "alias" -> <<" ", "[">> \o f.raw \o <<"]">>
    [] f.kind = "group" ->
         <<" ", "[">>
         \o Join([k \in 1..Len(f.members) |-> MemberText(f.members[k])], <<";", " ">>)
         \o <<"]">>

NodeText(n) ==
  n.name \o Flatten([j \in 1..Len(n.fragments) |-> FragmentText(n.fragments[j])])

\* text is the roots of d in the render format.
RenderFormat(d, text) ==
  /\ roots(d) = <<>> <=> text = <<>>
  /\ roots(d) # <<>> =>
       /\ text = Join([k \in 1..Len(roots(d)) |-> NodeText(roots(d)[k])], <<";", " ">>)
                 \o <<";">>
       /\ text[Len(text)] = ";"
  /\ \A n \in treeNodes(d) : \A j \in 1..Len(n.fragments) :
       /\ n.fragments[j].kind \in {"info", "alias"} =>
            n.fragments[j].raw = Trim(n.fragments[j].raw)
       /\ stringifyFragment(n.fragments[j])[1] = " "

\* C11: the canonical text is, for each root in order, its trimmed name and
\* then each fragment in order with one leading space (" (raw)", " [raw]",
\* " [m1; m2; ...]"), the roots joined by "; " and closed by one ";" exactly
\* if there is a root; with no root it is the empty text.
C11_RenderFormat ==
  /\ pc \in {"canon", "reparsed", "output"} => RenderFormat(ds, canon)
  /\ pc = "output" => RenderFormat(ds2, canon2)

\* C11 witness: a rendered text of two roots, with an info fragment, an
\* alias and a group of two members among their fragments.
C11_Witness ==
  /\ pc = "canon"
  /\ Len(roots(ds)) >= 2
  /\ \E k \in 1..Len(roots(ds)) : \E j \in 1..Len(roots(ds)[k].fragments) :
       roots(ds)[k].fragments[j].kind = "info"
  /\ \E k \in 1..Len(roots(ds)) : \E j \in 1..Len(roots(ds)[k].fragments) :
       roots(ds)[k].fragments[j].kind = "alias"
  /\ \E k \in 1..Len(roots(ds)) : \E j \in 1..Len(roots(ds)[k].fragments) :
       /\ roots(ds)[k].fragments[j].kind = "group"
       /\ Len(roots(ds)[k].fragments[j].members) >= 2

\* Character c with the raw text of every group fragment in it replaced by text.
RECURSIVE withGroupRaw(_, _)
withGroupRaw(c, text) ==
  IF c.kind # "node" THEN c
  ELSE [c EXCEPT !.fragments =
         [j \in 1..Len(c.fragments) |->
            IF c.fragments[j].kind # "group" THEN c.fragments[j]
            ELSE [c.fragments[j] EXCEPT
                    !.raw = text,
                    !.members = [k \in 1..Len(c.fragments[j].members) |->
                                   withGroupRaw(c.fragments[j].members[k], text)]]]]

\* Dataset d with the raw text of every group fragment replaced by text.
rawReplaced(d, text) ==
  [d EXCEPT !.entries = [k \in 1..Len(d.entries) |-> withGroupRaw(d.entries[k], text)]]

\* The texts put in place of the raw text of the groups.
OtherRaws == { <<>>, <<"z">>, <<"z", ";", " ", "[", "q", "]">> }

GroupFromMembers(d) ==
  /\ \A text \in OtherRaws : stringifyDataset(rawReplaced(d, text)) = stringifyDataset(d)
  /\ \A n \in treeNodes(d) : \A f \in groupFragments(n) :
       stringifyFragment(f) =
         <<" ", "[">>
         \o Join([k \in 1..Len(f.members) |->
                    IF f.members[k].kind = "node"
                    THEN stringifyNode(f.members[k])
                    ELSE Trim(f.members[k].raw)], <<";", " ">>)
         \o <<"]">>

\* C12: a group is rendered from its parsed members only: a Dataset renders
\* to the same text whatever the raw field of its group fragments holds,
\* and a group's text is its members' texts joined by "; " in square
\* brackets, a node member's text being that of stringifyNode.
C12_GroupFromMembers == GroupFromMembers(ds) /\ GroupFromMembers(ds2)

\* C12 witness: a parsed group whose raw text is not the text its members
\* render to, one of them a node with a group of its own.
C12_Witness ==
  /\ pc = "canon"
  /\ \E n \in treeNodes(ds) : \E f \in groupFragments(n) :
       /\ <<" ", "[">> \o f.raw \o <<"]">> # stringifyFragment(f)
       /\ \E k \in 1..Len(f.members) :
            f.members[k].kind = "node" /\ groupFragments(f.members[k]) # {}

\* The number of indices of seq that hold v.
Occurrences(seq, v) == Cardinality({ k \in 1..Len(seq) : seq[k] = v })

\* The characters the fragment loop of node n met at the bracket starts.
bracketsMet(n) ==
  [x \in 1..Len(fragmentStarts(n.entry, n.start)) |->
     At(n.entry, fragmentStarts(n.entry, n.start)[x])]

OneInfoPerRound(d) ==
  \A n \in treeNodes(d) :
    /\ Occurrences([j \in 1..Len(n.fragments) |-> n.fragments[j].kind], "info")
         = Occurrences(bracketsMet(n), "(")
    /\ \A j \in 1..Len(n.fragments) :
         At(n.entry, n.fragments[j].at) = "(" =>
           /\ n.fragments[j].kind = "info"
           /\ n.fragments[j].raw
                = Trim(readRoundFlat(n.entry, n.fragments[j].at, "round", <<>>).inner)
           /\ Occurrences(n.fragments[j].raw, ",")
                = Occurrences(readRoundFlat(n.entry, n.fragments[j].at, "round", <<>>).inner, ",")

\* C13: every '(' the fragment loop of a node meets gives exactly one info
\* fragment, whose raw is the trimmed inner text, commas included.  "Jimmy
\* Olsen (origin, death);" parses to one node named "Jimmy Olsen" with the
\* one info fragment "origin, death", and renders to itself.
C13_OneInfo ==
  /\ OneInfoPerRound(ds)
  /\ OneInfoPerRound(ds2)
  /\ (input = JimmyOlsen /\ pc # "input") =>
       /\ Len(ds.entries) = 1
       /\ ds.entries[1].name = SubSeq(JimmyOlsen, 1, 11)
       /\ Len(ds.entries[1].fragments) = 1
       /\ ds.entries[1].fragments[1].kind = "info"
       /\ ds.entries[1].fragments[1].raw = SubSeq(JimmyOlsen, 14, 26)
  /\ (input = JimmyOlsen /\ pc \in {"canon", "reparsed", "output"}) => canon = JimmyOlsen

\* C13 witness: the Jimmy Olsen example, parsed and rendered, its info
\* fragment holding a ','.
C13_Witness ==
  /\ pc = "canon"
  /\ input = JimmyOlsen
  /\ \E j \in 1..Len(ds.entries[1].fragments) :
       ds.entries[1].fragments[j].kind = "info" /\ Includes(ds.entries[1].fragments[j].raw, ",")

\* The '[' fragments that follow an info fragment of their node, each as
\* <<node, index>>.
lateSquareSites(d) ==
  { s \in squareSites(d) :
      \E x \in 1..(s[2] - 1) : s[1].fragments[x].kind = "info" }

orderIssue(site) ==
  Issue("INVALID_FRAGMENT_ORDER",
        SliceFrom(site[1].entry, site[1].fragments[site[2]].at), site[1].path)

OrderIssuesExactly(d) ==
  /\ \A s \in lateSquareSites(d) :
       /\ s[1].fragments[s[2]].kind \in {"alias", "group"}
       /\ IssueCount(d, orderIssue(s))
            = Cardinality({ o \in lateSquareSites(d) : orderIssue(o) = orderIssue(s) })
  /\ \A v \in IssuesOf(d, "INVALID_FRAGMENT_ORDER") :
       /\ v.raw[1] = "["
       /\ \E s \in lateSquareSites(d) : orderIssue(s) = v

\* C14: INVALID_FRAGMENT_ORDER is emitted once for each '[' fragment that
\* starts after an info fragment of the same node, with the entry text from
\* that '[' to the end as raw, and for nothing else (never for a '('); the
\* alias or group of that '[' is among the node's fragments all the same.
C14_FragmentOrder == OrderIssuesExactly(ds) /\ OrderIssuesExactly(ds2)

\* C14 witness: a parsed node with a '[' fragment after an info fragment
\* and one before it, and the issue.
C14_Witness ==
  /\ pc = "parsed"
  /\ HasIssue(ds, "INVALID_FRAGMENT_ORDER")
  /\ \E s \in lateSquareSites(ds) : \E o \in squareSites(ds) \ lateSquareSites(ds) :
       o[1] = s[1]

\* The number of issues of d with the given code.
CodeCount(d, code) ==
  Cardinality({ k \in 1..Len(d.issuesDetailed) : d.issuesDetailed[k].code = code })

\* C15 as stated: parsing "Iota [A] (x) [B] (y);" returns two
\* INVALID_FRAGMENT_ORDER issues.
C15_TwoOrderIssues ==
  (input = Iota /\ pc # "input") => CodeCount(ds, "INVALID_FRAGMENT_ORDER") = 2

\* C15 amended: parsing "Iota [A] (x) [B] (y);" returns one
\* INVALID_FRAGMENT_ORDER issue, that of "[B]", the one '[' after a '(',
\* with raw "[B] (y)"; "[A]" stands before any '(' and the '(' are never
\* reported.
C15_OneOrderIssue ==
  (input = Iota /\ pc # "input") =>
    /\ CodeCount(ds, "INVALID_FRAGMENT_ORDER") = 1
    /\ ds.issuesDetailed = << Issue("INVALID_FRAGMENT_ORDER", SubSeq(Iota, 14, 20), "top[0]") >>
    /\ [j \in 1..4 |-> ds.entries[1].fragments[j].kind] = <<"alias", "info", "alias", "info">>

\* C15 witness: the Iota example parsed, with its four fragments.
C15_Witness ==
  /\ pc = "parsed"
  /\ input = Iota
  /\ Len(ds.entries) = 1
  /\ Len(ds.entries[1].fragments) = 4

\* Some opener of s has no closer after it: from the opener on, every stretch
\* to the end of s or short of it holds more openers than closers.
UnmatchedOpener(s, open, close) == Unclosed(s, open, close, Len(s) + 1)

\* Some closer of s has no opener before it: every stretch that ends at the
\* closer holds more closers than openers.
UnmatchedCloser(s, open, close) ==
  \E q \in 1..Len(s) :
    /\ s[q] = close
    /\ \A r \in 1..q : Count(s, close, r, q) > Count(s, open, r, q)

\* s has a structural problem: a bracket of either kind without its match.
Malformed(s) ==
  \/ UnmatchedOpener(s, "(", ")") \/ UnmatchedOpener(s, "[", "]")
  \/ UnmatchedCloser(s, "(", ")") \/ UnmatchedCloser(s, "[", "]")

BracketCodes ==
  {"UNMATCHED_ROUND", "UNMATCHED_SQUARE", "EXTRA_CLOSING_ROUND", "EXTRA_CLOSING_SQUARE"}

\* C16: every structural problem is reported: the parse of an input in which
\* some '(' or '[' has no matching closer, or some ')' or ']' no matching
\* opener, returns at least one issue with code UNMATCHED_ROUND,
\* UNMATCHED_SQUARE, EXTRA_CLOSING_ROUND or EXTRA_CLOSING_SQUARE.
C16_ProblemsReported ==
  (pc # "input" /\ Malformed(input)) => \E code \in BracketCodes : HasIssue(ds, code)

\* The indices (1-based) of the pieces of the input that have a name.
namedPieces(d) == keptPieces(d.parts, 1, FALSE)

\* The top-level segments of text: its pieces that are not blank.
segments(text) ==
  SelectSeq(splitByTopLevelSemicolon(text, "input", <<>>).out, LAMBDA p : Trim(p) # <<>>)

\* C17: only MISSING_NAME suppresses output: every top-level piece of the
\* input whose text before its first '[' or '(' is not blank yields exactly
\* one root node, whatever other issues it raises, and the canonical text
\* has as many top-level segments as there are such pieces, in input order.
C17_OnlyMissingNameSuppresses ==
  /\ pc # "input" =>
       /\ Len(roots(ds)) = Len(namedPieces(ds))
       /\ \A x \in 1..Len(roots(ds)) :
            roots(ds)[x].entry = Trim(ds.parts[namedPieces(ds)[x]])
  /\ pc \in {"canon", "reparsed", "output"} =>
       /\ Len(segments(canon)) = Len(namedPieces(ds))
       /\ \A x \in 1..Len(segments(canon)) :
            x <= Len(roots(ds)) =>
              candidateName(segments(canon)[x], nameEnd(segments(canon)[x], 0))
                = roots(ds)[x].name

\* C18: the parser never repairs malformed input: the canonical text holds
\* no more ')' and no more ']' than the input, so an opener the input leaves
\* unmatched gets no closer in the output.
C18_NeverRepairs ==
  pc \in {"canon", "reparsed", "output"} =>
    /\ Occurrences(canon, ")") <= Occurrences(input, ")")
    /\ Occurrences(canon, "]") <= Occurrences(input, "]")

\* Both depth counters are zero when the scan of s reaches index i (0-based):
\* no '(' and no '[' before it is left unclosed.
CountersZero(s, i) == ~Unclosed(s, "(", ")", i + 1) /\ ~Unclosed(s, "[", "]", i + 1)

\* The issue the scan of s owes for index i, as a sequence of none or one.
closerIssue(s, path, i) ==
  IF At(s, i) = ")" /\ ~Unclosed(s, "(", ")", i + 1)
  THEN << Issue("EXTRA_CLOSING_ROUND", SliceFrom(s, i), path) >>
  ELSE IF At(s, i) = "]" /\ ~Unclosed(s, "[", "]", i + 1)
  THEN << Issue("EXTRA_CLOSING_SQUARE", SliceFrom(s, i), path) >>
  ELSE <<>>

\* The issues the scan of s owes, in order.
closerIssues(s, path) == Flatten([p \in 1..Len(s) |-> closerIssue(s, path, p - 1)])

\* What one call scanTopLevel(s, path, []) does.
ScanContract(s, path) ==
  LET sc == scanTopLevel(s, path, <<>>) IN
  /\ sc.low >= 0
  /\ sc.ret
  /\ \A k \in 1..Len(sc.calls) :
       /\ sc.calls[k] \in 0..(Len(s) - 1)
       /\ At(s, sc.calls[k]) \notin {"(", ")", "[", "]"}
       /\ CountersZero(s, sc.calls[k])
  /\ sc.issues = closerIssues(s, path)

\* C19: in every scanTopLevel call (of the input, of the canonical text, of
\* the inner text of every '[' fragment) the depth counters never go below
\* zero, the callback is invoked only for characters that are no brackets
\* at indices where both counters are zero, every ')' or ']' met while its
\* counter is zero appends one EXTRA_CLOSING_ROUND or EXTRA_CLOSING_SQUARE
\* issue with the text from that closer to the end as raw, the scan going
\* on, and the call returns true (no callback of the program returns
\* false).  The issues of a parse start with those of the scan of its input.
C19_BracketScanner ==
  /\ ScanContract(input, "input")
  /\ ScanContract(canon, "input")
  /\ \A d \in {ds, ds2} : \A s \in squareSites(d) :
       ScanContract(siteInner(s), s[1].path \o ".square")
  /\ pc # "input" =>
       SubSeq(ds.issuesDetailed, 1, Len(closerIssues(input, "input")))
         = closerIssues(input, "input")

\* C19 witness: a parsed input whose scan met a ')' and a ']' at depth
\* zero, and a ']' that closed a '['.
C19_Witness ==
  /\ pc = "parsed"
  /\ HasIssue(ds, "EXTRA_CLOSING_ROUND")
  /\ HasIssue(ds, "EXTRA_CLOSING_SQUARE")
  /\ \E p \in 1..Len(input) : input[p] = "]" /\ Unclosed(input, "[", "]", p)

\* The number of ';' of s that no unclosed bracket precedes.
topLevelSeparators(s) ==
  Cardinality({ p \in 1..Len(s) : s[p] = ";" /\ CountersZero(s, p - 1) })

\* What splitByTopLevelSemicolon(s) returns.
SplitContract(s) ==
  /\ Len(splitByTopLevelSemicolon(s, "split", <<>>).out) = topLevelSeparators(s) + 1
  /\ Join(splitByTopLevelSemicolon(s, "split", <<>>).out, <<";">>) = s

\* C20: for every string s (the input, the canonical text, the inner text of
\* every group), splitByTopLevelSemicolon returns one piece more than s has
\* top-level ';', the last piece included even when empty, and the pieces
\* joined with ';' are s, character for character.  The pieces of a parse
\* are those of its input.
C20_EntrySplitter ==
  /\ SplitContract(input)
  /\ SplitContract(canon)
  /\ \A n \in builtNodes : \A f \in groupFragments(n) : SplitContract(f.raw)
  /\ pc # "input" =>
       /\ Len(ds.parts) = topLevelSeparators(input) + 1
       /\ Join(ds.parts, <<";">>) = input

\* C20 witness: a parsed input of three pieces or more, the last one empty,
\* one starting with a blank, with a ';' inside brackets that did not cut.
C20_Witness ==
  /\ pc = "parsed"
  /\ Len(ds.parts) >= 3
  /\ ds.parts[Len(ds.parts)] = <<>>
  /\ \E k \in 1..Len(ds.parts) : ds.parts[k] # <<>> /\ ds.parts[k][1] = " "
  /\ Occurrences(input, ";") > topLevelSeparators(input)

\* The '(' at index i (0-based) of s has no matching ')': every stretch from
\* it on holds more '(' than ')'.
RoundOpen(s, i) ==
  \A r \in (i + 1)..Len(s) : Count(s, "(", i + 1, r) > Count(s, ")", i + 1, r)

\* The issues of the given code among those of a reader's result.
issuesWith(r, code) == SelectSeq(r.issues, LAMBDA v : v.code = code)

\* What readRoundFlat returns for the '(' at index i of s.
RoundEnd(s, i) ==
  LET r == readRoundFlat(s, i, "reader", <<>>) IN
  IF RoundOpen(s, i)
  THEN /\ r.issues = << Issue("UNMATCHED_ROUND", SliceFrom(s, i), "reader") >>
       /\ r.inner = SliceFrom(s, i + 1)
       /\ r.next = Len(s)
  ELSE issuesWith(r, "UNMATCHED_ROUND") = <<>>

\* readSquareBalanced ran to the end of s for the '[' at index i.
SquareOpen(s, i) ==
  issuesWith(readSquareBalanced(s, i, "reader", <<>>), "UNMATCHED_SQUARE") # <<>>

\* What readSquareBalanced returns for the '[' at index i of s.
SquareEnd(s, i) ==
  LET r == readSquareBalanced(s, i, "reader", <<>>) IN
  /\ IF SquareOpen(s, i)
     THEN /\ issuesWith(r, "UNMATCHED_SQUARE")
               = << Issue("UNMATCHED_SQUARE", SliceFrom(s, i), "reader") >>
          /\ r.issues[Len(r.issues)].code = "UNMATCHED_SQUARE"
          /\ r.inner = SliceFrom(s, i + 1)
          /\ r.next = Len(s)
     ELSE /\ At(s, r.next - 1) = "]"
          /\ r.inner = Slice(s, i + 1, r.next - 1)
  /\ ~Includes(SliceFrom(s, i + 1), "]") => SquareOpen(s, i)
  /\ ~Includes(SliceFrom(s, i + 1), "(") =>
       (SquareOpen(s, i) <=>
          \A r2 \in (i + 1)..Len(s) : Count(s, "[", i + 1, r2) > Count(s, "]", i + 1, r2))

\* Fragment j of node n was read to the end of the entry, its opener unmatched.
openFragment(n, j) ==
  IF At(n.entry, n.fragments[j].at) = "("
  THEN RoundOpen(n.entry, n.fragments[j].at)
  ELSE SquareOpen(n.entry, n.fragments[j].at)

unmatchedIssue(n, j) ==
  Issue(IF At(n.entry, n.fragments[j].at) = "(" THEN "UNMATCHED_ROUND" ELSE "UNMATCHED_SQUARE",
        SliceFrom(n.entry, n.fragments[j].at), n.path)

UnmatchedEnds(d) ==
  \A n \in treeNodes(d) : \A j \in 1..Len(n.fragments) :
    openFragment(n, j) =>
      /\ j = Len(n.fragments)
      /\ n.fragments[j].next = Len(n.entry)
      /\ n.fragments[j].raw =
           (IF n.fragments[j].kind = "group"
            THEN SliceFrom(n.entry, n.fragments[j].at + 1)
            ELSE Trim(SliceFrom(n.entry, n.fragments[j].at + 1)))
      /\ IssueCount(d, unmatchedIssue(n, j)) >= 1

\* C21: a reader that reaches the end of the string with its opener
\* unmatched emits exactly one UNMATCHED_ROUND (UNMATCHED_SQUARE) issue whose
\* raw is the string from the opener on, returns everything after the opener
\* as inner text and the length of the string as next; the fragment parseNode
\* builds from it holds that inner text and is the node's last.  "Zeta
\* (a,b;" gives the node Zeta and one UNMATCHED_ROUND issue.
C21_UnmatchedOpener ==
  /\ \A s \in {input, canon} : \A i \in 0..(Len(s) - 1) :
       /\ At(s, i) = "(" => RoundEnd(s, i)
       /\ At(s, i) = "[" => SquareEnd(s, i)
  /\ UnmatchedEnds(ds)
  /\ UnmatchedEnds(ds2)
  /\ (input = Zeta /\ pc # "input") =>
       /\ Len(ds.entries) = 1
       /\ ds.entries[1].name = SubSeq(Zeta, 1, 4)
       /\ ds.issuesDetailed = << Issue("UNMATCHED_ROUND", SubSeq(Zeta, 6, 10), "top[0]") >>

\* C21 witness: a parsed node whose last fragment is a '[' left unmatched,
\* after another fragment, with its issue.
C21_Witness ==
  /\ pc = "parsed"
  /\ HasIssue(ds, "UNMATCHED_SQUARE")
  /\ \E n \in treeNodes(ds) :
       /\ Len(n.fragments) >= 2
       /\ At(n.entry, n.fragments[Len(n.fragments)].at) = "["
       /\ openFragment(n, Len(n.fragments))

\* The index (0-based) of the ')' that matches the '(' at index i of s, which
\* has one: the first at which as many ')' as '(' were met from i on.
roundClose(s, i) ==
  CHOOSE c \in (i + 1)..(Len(s) - 1) :
    /\ Count(s, "(", i + 1, c + 1) = Count(s, ")", i + 1, c + 1)
    /\ \A b \in (i + 1)..(c - 1) : Count(s, "(", i + 1, b + 1) > Count(s, ")", i + 1, b + 1)

\* What readRoundFlat returns for a matched '(' at index i of s.
RoundFlagged(s, i) ==
  LET r == readRoundFlat(s, i, "reader", <<>>) IN
  /\ r.inner = Slice(s, i + 1, roundClose(s, i))
  /\ r.next = roundClose(s, i) + 1
  /\ r.issues =
       (IF Includes(Slice(s, i + 1, roundClose(s, i)), "(")
        THEN << Issue("NESTED_ROUND_NOT_ALLOWED", Slice(s, i, roundClose(s, i) + 1), "reader") >>
        ELSE <<>>)

\* The matched info fragments of the tree of d, each as <<node, index>>.
closedRoundSites(d) ==
  UNION { { <<n, j>> : j \in { x \in 1..Len(n.fragments) :
                                 /\ At(n.entry, n.fragments[x].at) = "("
                                 /\ ~RoundOpen(n.entry, n.fragments[x].at) } }
          : n \in treeNodes(d) }

nestedIssue(site) ==
  Issue("NESTED_ROUND_NOT_ALLOWED",
        Slice(site[1].entry, site[1].fragments[site[2]].at,
              roundClose(site[1].entry, site[1].fragments[site[2]].at) + 1),
        site[1].path)

NestedFlagged(d) ==
  \A site \in closedRoundSites(d) :
    LET f == site[1].fragments[site[2]] IN
    /\ f.raw = Trim(Slice(site[1].entry, f.at + 1, roundClose(site[1].entry, f.at)))
    /\ Includes(f.raw, "(") => IssueCount(d, nestedIssue(site)) >= 1
    /\ ~Includes(f.raw, "(") => IssueCount(d, nestedIssue(site)) = 0

\* C22: nested round brackets are flagged, not altered: readRoundFlat, its
\* '(' matched, returns the text strictly between the '(' and its ')'
\* unchanged, with exactly one NESTED_ROUND_NOT_ALLOWED issue whose raw is
\* the span from the '(' through the ')' if that text holds a '(', and no
\* such issue if it holds none; the info fragment keeps the inner brackets.
C22_NestedRound ==
  /\ \A s \in {input, canon} : \A i \in 0..(Len(s) - 1) :
       (At(s, i) = "(" /\ ~RoundOpen(s, i)) => RoundFlagged(s, i)
  /\ NestedFlagged(ds)
  /\ NestedFlagged(ds2)

\* C22 witness: a parsed info fragment that holds a '(' and its ')', with
\* the issue.
C22_Witness ==
  /\ pc = "parsed"
  /\ HasIssue(ds, "NESTED_ROUND_NOT_ALLOWED")
  /\ \E site \in closedRoundSites(ds) :
       /\ Includes(site[1].fragments[site[2]].raw, "(")
       /\ Includes(site[1].fragments[site[2]].raw, ")")

\* The pieces of the groups of d that are not empty and begin with '[', each
\* as <<node, fragment index, piece index (0-based)>>.
rawPieceSites(d) ==
  UNION { { <<g[1], g[2], k>> : k \in { x \in 0..(Len(memberPieces(g[1], g[2])) - 1) :
              /\ Trim(memberPieces(g[1], g[2])[x + 1]) # <<>>
              /\ Trim(memberPieces(g[1], g[2])[x + 1])[1] = "[" } }
          : g \in groupSites(d) }

\* The trimmed piece of a site.
sitePiece(s) == Trim(memberPieces(s[1], s[2])[s[3] + 1])

rawMemberIssue(s) ==
  Issue("INVALID_MEMBER_ALIAS_ONLY", sitePiece(s), Indexed(s[1].path \o ".group", s[3]))

RawMembers(d) ==
  /\ \A s \in rawPieceSites(d) :
       LET f == s[1].fragments[s[2]] IN
       /\ Cardinality({ x \in 1..Len(f.pieces) : f.pieces[x] = s[3] }) = 1
       /\ \A x \in 1..Len(f.pieces) :
            f.pieces[x] = s[3] =>
              /\ f.members[x] = [kind |-> "raw", raw |-> sitePiece(s)]
              /\ stringifyCharacter(f.members[x]) = sitePiece(s)
       /\ IssueCount(d, rawMemberIssue(s))
            = Cardinality({ o \in rawPieceSites(d) : rawMemberIssue(o) = rawMemberIssue(s) })
  /\ \A v \in IssuesOf(d, "INVALID_MEMBER_ALIAS_ONLY") :
       \E s \in rawPieceSites(d) : rawMemberIssue(s) = v
  /\ \A g \in groupSites(d) :
       LET f == g[1].fragments[g[2]] IN
       \A x \in 1..Len(f.members) :
         /\ Trim(memberPieces(g[1], g[2])[f.pieces[x] + 1]) # <<>>
         /\ f.members[x].kind = "raw" => <<g[1], g[2], f.pieces[x]>> \in rawPieceSites(d)
  /\ \A k \in 1..Len(d.entries) : d.entries[k].kind = "node"
  /\ \A k \in 1..Len(d.issuesDetailed) : d.issuesDetailed[k].raw # <<>>

\* C23: every piece of a group's inner text that is not empty and begins
\* with '[' gives one raw member that carries the piece and exactly one
\* INVALID_MEMBER_ALIAS_ONLY issue with the piece as raw; the member renders
\* as its text and is no entry.  An empty piece gives no member and no issue.
C23_RawMembers == RawMembers(ds) /\ RawMembers(ds2)

\* C23 witness: a rendered group that holds a raw member and a node member,
\* its inner text having an empty piece.
C23_Witness ==
  /\ pc = "canon"
  /\ HasIssue(ds, "INVALID_MEMBER_ALIAS_ONLY")
  /\ \E s \in rawPieceSites(ds) :
       /\ \E m \in nodeMembers(s[1]) : TRUE
       /\ \E k \in 1..Len(memberPieces(s[1], s[2])) : Trim(memberPieces(s[1], s[2])[k]) = <<>>

\* The closers of s (1-based positions) that no opener before them matches.
strayClosers(s, open, close) ==
  { q \in 1..Len(s) : s[q] = close /\ ~Unclosed(s, open, close, q) }

\* The '(' of s (0-based) that are unmatched and lie in no other round span.
unmatchedRounds(s) ==
  { i \in 0..(Len(s) - 1) :
      At(s, i) = "(" /\ RoundOpen(s, i) /\ ~Unclosed(s, "(", ")", i + 1) }

\* The '(' of s (0-based) that are matched, lie in no other round span and
\* hold a '(': the nested-round spans.
nestedSpans(s) ==
  { i \in 0..(Len(s) - 1) :
      /\ At(s, i) = "(" /\ ~RoundOpen(s, i) /\ ~Unclosed(s, "(", ")", i + 1)
      /\ Includes(Slice(s, i + 1, roundClose(s, i)), "(") }

\* C24: each bracket defect is reported once: an input with a single stray
\* ')' (stray ']', unmatched '(', nested-round span) has exactly one
\* EXTRA_CLOSING_ROUND (EXTRA_CLOSING_SQUARE, UNMATCHED_ROUND,
\* NESTED_ROUND_NOT_ALLOWED) issue in issuesDetailed, also when the defect
\* lies inside the square brackets of a group or alias.
C24_ReportedOnce ==
  pc # "input" =>
    /\ Cardinality(strayClosers(input, "(", ")")) = 1 =>
         CodeCount(ds, "EXTRA_CLOSING_ROUND") = 1
    /\ Cardinality(strayClosers(input, "[", "]")) = 1 =>
         CodeCount(ds, "EXTRA_CLOSING_SQUARE") = 1
    /\ Cardinality(unmatchedRounds(input)) = 1 => CodeCount(ds, "UNMATCHED_ROUND") = 1
    /\ Cardinality(nestedSpans(input)) = 1 => CodeCount(ds, "NESTED_ROUND_NOT_ALLOWED") = 1

\* The indices (0-based) of the entry of node n that its fragment loop
\* skipped: those from the end of the name on that lie in no fragment's span.
skipped(n) ==
  { p \in n.start..(Len(n.entry) - 1) :
      \A j \in 1..Len(n.fragments) : p < n.fragments[j].at \/ p >= n.fragments[j].next }

\* C25: no entry is lost silently: the characters the fragment loop of a
\* node skips as unknown never include a ';' (a ';' outside every bracket
\* span the readers consumed is a split point, so it never reaches the
\* loop), and so no text after one is discarded.
C25_NoSeparatorSkipped ==
  \A n \in builtNodes : \A p \in skipped(n) : At(n.entry, p) # ";"

====
